---- MODULE Spec2Model ----
(***************************************************************************)
(* Model of the camera-server auto-discovery pipeline of                   *)
(* test_camera_server.py: get_local_network_ranges, ping_sweep,            *)
(* scan_for_raspberry_pi_devices, scan_raspberry_pi_for_cameras,           *)
(* auto_discover_camera_servers and the best-candidate selection of main.  *)
(*                                                                         *)
(* Addresses, URLs, content types and host names are strings, and the      *)
(* f-string formatting, the slicing, str.lower() and the `in` substring    *)
(* test the code applies to them are computed character by character.      *)
(*                                                                         *)
(* Each ThreadPoolExecutor is modelled with its documented behaviour: at   *)
(* most max_workers calls execute at a time, queued calls start in         *)
(* submission order, and as_completed yields each future once, after it    *)
(* has finished.                                                           *)
(***************************************************************************)
EXTENDS Integers, Sequences, FiniteSets, TLC

VARIABLES
    localIp,            \* environment: what gethostbyname(gethostname()) gives
    net,                \* environment: the (deterministic) network
    pc,                 \* position of the main thread
    network_ranges,     \* auto_discover_camera_servers: network_ranges
    rangeIdx,           \* index of the network base being swept
    active_hosts,       \* ping_sweep: active_hosts
    all_active_hosts,   \* auto_discover_camera_servers: all_active_hosts
    classified,         \* what scan_for_raspberry_pi_devices returned
    raspberry_pi_hosts, \* the device list (being built, then handed to the resolver)
    devIdx,             \* index of the device being scanned for cameras
    camera_servers,     \* scan_raspberry_pi_for_cameras: camera_servers
    discovered_servers, \* main: discovered_servers
    best_server,        \* main: best_server
    futures,            \* arguments of the calls of the open executor, in order
    started,            \* how many of them a worker thread has taken
    running,            \* the calls executing now
    finished,           \* the calls of the open executor that have returned
    ready,              \* finished futures as_completed has not yielded yet
    stats,              \* counts of probe tasks started and completed, per stage
    firstRun,           \* what the previous run against this network returned and selected
    call,               \* a function called on its own: its name and its input
    ret,                \* what that call returned, << >> before it has
    found_servers,      \* main: found_servers
    total_servers       \* main: total_servers, << >> before it is assigned

vars == << localIp, net, pc, network_ranges, rangeIdx, active_hosts,
           all_active_hosts, classified, raspberry_pi_hosts, devIdx,
           camera_servers, discovered_servers, best_server, futures,
           started, running, finished, ready, stats, firstRun, call, ret,
           found_servers, total_servers >>

\* The environment, the main thread's variables and the open executor's.
envVars == << localIp, net, firstRun, call, ret, found_servers,
             total_servers >>
mainVars == << network_ranges, rangeIdx, active_hosts, all_active_hosts,
               classified, raspberry_pi_hosts, devIdx, camera_servers,
               discovered_servers, best_server >>
poolVars == << futures, started, finished, ready >>

-----------------------------------------------------------------------------
(* Bounds of the model.                                                    *)

\* ping_sweep sweeps host numbers 1..254; the model sweeps 1..MaxHost.
MaxHost == 3
\* How many of the four fallback network bases are swept.
NBases == 2
\* How many of the nine camera_ports and ten camera_endpoints are probed.
NPorts == 2
NEndpoints == 3
\* The executors' max_workers (50, 20 and 10 in the code), scaled down with
\* the numbers of tasks so that each stage has more tasks than workers.
PingWorkers == 2
PiWorkers == 1
CameraWorkers == 2

-----------------------------------------------------------------------------
(* Strings.                                                                *)

Char(s, i) == SubSeq(s, i, i)

Digits == "0123456789"

\* str(n) of a non-negative integer, as an f-string formats it
RECURSIVE DecStr(_)
DecStr(n) ==
    IF n < 10 THEN Char(Digits, n + 1)
    ELSE DecStr(n \div 10) \o Char(Digits, (n % 10) + 1)

Upper == "ABCDEFGHIJKLMNOPQRSTUVWXYZ"
LowerCase == "abcdefghijklmnopqrstuvwxyz"

\* The lower-case letter of each upper-case letter
ToLower == [c \in { Char(Upper, i) : i \in 1..Len(Upper) } |->
               Char(LowerCase, CHOOSE i \in 1..Len(Upper) : Char(Upper, i) = c)]

\* str.lower() of one character
LowerChar(c) == IF c \in DOMAIN ToLower THEN ToLower[c] ELSE c

\* str.lower(), character by character from position i on
RECURSIVE LowerFrom(_, _)
LowerFrom(s, i) ==
    IF i > Len(s) THEN ""
    ELSE LowerChar(Char(s, i)) \o LowerFrom(s, i + 1)

\* str.lower()
Lower(s) == LowerFrom(s, 1)

\* Python's `sub in s` for strings
Contains(sub, s) ==
    \E i \in 0..(Len(s) - Len(sub)) : SubSeq(s, i + 1, i + Len(sub)) = sub

\* s.split("."): the pieces of s between its dots
RECURSIVE SplitFrom(_, _, _)
SplitFrom(s, i, piece) ==
    IF i > Len(s) THEN << piece >>
    ELSE IF Char(s, i) = "." THEN << piece >> \o SplitFrom(s, i + 1, "")
    ELSE SplitFrom(s, i + 1, piece \o Char(s, i))

Split(s) == SplitFrom(s, 1, "")

IsDigit(c) == \E d \in 1..Len(Digits) : Char(Digits, d) = c

\* int(p) of a string of digits
RECURSIVE DecValue(_)
DecValue(p) ==
    IF p = "" THEN 0
    ELSE 10 * DecValue(SubSeq(p, 1, Len(p) - 1))
             + ((CHOOSE d \in 1..Len(Digits) : Char(Digits, d) = Char(p, Len(p))) - 1)

\* p is a decimal number from 0 to 255
IsOctet(p) ==
    /\ Len(p) \in 1..3
    /\ \A i \in 1..Len(p) : IsDigit(Char(p, i))
    /\ DecValue(p) <= 255

\* s is n octets separated by dots: an IPv4 address when n = 4, the network
\* base of a /24 when n = 3
Octets(s, n) ==
    LET parts == Split(s)
    IN  Len(parts) = n /\ \A i \in 1..n : IsOctet(parts[i])

DottedQuad(s) == Octets(s, 4)

\* f"{network_base}.{host_num}"
HostAddress(network_base, host_num) == network_base \o "." \o DecStr(host_num)

\* f"http://{ip}:{port}/{endpoint}"
Url(ip, port, endpoint) ==
    "http://" \o ip \o ":" \o DecStr(port) \o "/" \o endpoint

-----------------------------------------------------------------------------
(* The environment: the local address and the network the probes meet.     *)
(* Every probe of one target gives the same answer each time it is made.   *)

\* The octets gethostbyname(gethostname()) resolves to; << >> when it raises.
LocalIps == { << >>, << 192, 168, 1, 7 >> }

\* str(ipaddress.IPv4Network(f"{local_ip}/24", strict=False).network_address)
NetworkAddress(ip) ==
    DecStr(ip[1]) \o "." \o DecStr(ip[2]) \o "." \o DecStr(ip[3]) \o ".0"

FallbackRanges == << "192.168.1", "192.168.0", "10.0.0", "172.16.0" >>

\* The addresses at which the network may hold a host.
MayRespond == { HostAddress(FallbackRanges[1], 1),
                HostAddress(FallbackRanges[1], 2) }

\* What a host is: the TCP ports it accepts connections on, the name reverse
\* DNS gives for it ("" when the lookup fails) and the HTTP responses it
\* serves: port, path, status and content-type header (<< >> when absent).
Resp(port, endpoint, status, header) ==
    [port |-> port, endpoint |-> endpoint, status |-> status, header |-> header]

HostKinds == { "silentcam", "sshonly", "picam", "cam1", "dnsonly" }

KindTcp(kind) ==
    CASE kind = "silentcam" -> { }
      [] kind = "sshonly"   -> { 22 }
      [] kind = "picam"     -> { 22, 80, 8080, 5900 }
      [] kind = "cam1"      -> { 8080 }
      [] kind = "dnsonly"   -> { }
      [] kind = "mjpegcam"  -> { 8080 }
      [] kind = "maccam"    -> { 8080 }

KindName(kind) ==
    CASE kind = "silentcam" -> ""
      [] kind = "sshonly"   -> "laptop.lan"
      [] kind = "picam"     -> "RaspberryPi.local"
      [] kind = "cam1"      -> ""
      [] kind = "dnsonly"   -> "RPI-zero"
      [] kind = "mjpegcam"  -> ""
      [] kind = "maccam"    -> ""

KindHttp(kind) ==
    CASE kind = "silentcam" ->
            { Resp(8081, "video", 200, << "Image/JPEG" >>),
              Resp(8081, "stream", 200, << "text/html; charset=utf-8" >>) }
      [] kind = "sshonly"   -> { }
      [] kind = "picam"     ->
            { Resp(8080, "my_mac_camera", 200,
                   << "multipart/x-mixed-replace; boundary=frame" >>),
              Resp(8080, "video", 200, << "video/mjpeg" >>),
              Resp(8080, "stream", 200, << >>),
              Resp(8081, "my_mac_camera", 404, << "image/png" >>),
              Resp(8081, "video", 200, << "text/html" >>),
              Resp(8081, "stream", 200, << "image/jpeg" >>) }
      [] kind = "cam1"      ->
            { Resp(8080, "video", 200, << "image/jpeg" >>),
              Resp(8080, "stream", 200, << "application/octet-stream" >>) }
      [] kind = "dnsonly"   -> { }
      [] kind = "mjpegcam"  -> { Resp(8080, "stream", 200, << "video/mjpeg" >>) }
      [] kind = "maccam"    ->
            { Resp(8080, "my_mac_camera", 200, << "image/jpeg" >>) }

\* The addresses and the kinds of host of all the networks considered: those
\* of a run of the script, a camera at 10.0.0.5 that a scan is given, and
\* the default address 192.168.1.8 of the camera server.
Addresses == MayRespond \cup { "10.0.0.5", "192.168.1.8" }
AllKinds == HostKinds \cup { "mjpegcam", "maccam" }

Networks == [MayRespond -> HostKinds \cup { "down" }]

Up(ip) == ip \in DOMAIN net /\ net[ip] # "down"

\* returncode of the ping command for ip
PingReturnCode(ip) == IF Up(ip) THEN 0 ELSE 1

\* subprocess.run(["ping", "-c", "1", "-W", "1", ip], timeout=2): ping
\* refuses a malformed address with code 2, gets no answer from a host that
\* is down, and where no host is known at all it is still waiting when
\* the timeout ends it.
PingRun(ip) ==
    IF ~DottedQuad(ip) THEN [raised |-> "", returncode |-> 2]
    ELSE IF ip \notin DOMAIN net
    THEN [raised |-> "TimeoutExpired", returncode |-> 0]
    ELSE [raised |-> "", returncode |-> PingReturnCode(ip)]

\* sock.connect_ex((ip, port)): 0, or the errno of a refused connection
ConnectEx(ip, port) ==
    IF Up(ip) /\ port \in KindTcp(net[ip]) THEN 0 ELSE 111

\* socket.gethostbyaddr(ip)[0], or that the lookup raised
GetHostByAddr(ip) ==
    IF Up(ip) /\ KindName(net[ip]) # ""
    THEN [raised |-> FALSE, hostname |-> KindName(net[ip])]
    ELSE [raised |-> TRUE, hostname |-> ""]

\* The path of a URL http://host:port/path, with its leading slash
RECURSIVE PathFrom(_, _)
PathFrom(url, i) ==
    IF i > Len(url) THEN "/"
    ELSE IF Char(url, i) = "/" THEN SubSeq(url, i, Len(url))
    ELSE PathFrom(url, i + 1)

PathOf(url) == PathFrom(url, Len("http://") + 1)

\* The URLs a host of each kind serves at each address, with the responses.
Served ==
    [ip \in Addresses |->
        [kind \in AllKinds \cup { "down" } |->
            IF kind = "down" THEN { }
            ELSE { [url |-> Url(ip, x.port, x.endpoint), resp |-> x] :
                   x \in KindHttp(kind) }]]

\* What requests.get gives: a response with its status and its content-type
\* header (<< >> when absent), or an exception, of class raised and with
\* str(e) = error.
Response(status_code, headers) ==
    [raised |-> "", status_code |-> status_code, headers |-> headers,
     error |-> ""]

Failure(class, error) ==
    [raised |-> class, status_code |-> 0, headers |-> << >>, error |-> error]

\* requests.get(url, timeout=5): the response, or the RequestException raised
RequestsGet(url) ==
    LET hits == { r \in UNION { Served[ip][net[ip]] : ip \in DOMAIN net } :
                   r.url = url }
    IN  IF hits = { }
        THEN Failure("ConnectionError",
                     "Max retries exceeded with url: " \o PathOf(url))
        ELSE LET r == CHOOSE h \in hits : TRUE
             IN  Response(r.resp.status, r.resp.header)

-----------------------------------------------------------------------------
(* The probe primitives and the task bodies.  A function that returns a    *)
(* value or None returns a sequence of at most one element.                *)

NoResult == << >>

Range(seq) == { seq[i] : i \in 1..Len(seq) }

\* What the four socket calls of a TCP probe do: for each the name of the
\* exception it raises ("" when it raises none), and what connect_ex returns.
SocketCalls(create, settimeout, connect, code, close) ==
    [create |-> create, settimeout |-> settimeout, connect |-> connect,
     code |-> code, close |-> close]

\* The socket calls of a probe of ip:port in the network
SocketCallsAt(ip, port) == SocketCalls("", "", "", ConnectEx(ip, port), "")

\* The exceptions that are not subclasses of Exception
NotExceptions == { "KeyboardInterrupt", "SystemExit", "GeneratorExit" }

\* The try block of test_ip_connectivity and of test_port: what it returns,
\* or the exception that leaves it.
TrySocket(o) ==
    IF o.create # "" THEN [raised |-> o.create, value |-> FALSE]
    ELSE IF o.settimeout # "" THEN [raised |-> o.settimeout, value |-> FALSE]
    ELSE IF o.connect # "" THEN [raised |-> o.connect, value |-> FALSE]
    ELSE IF o.close # "" THEN [raised |-> o.close, value |-> FALSE]
    ELSE [raised |-> "", value |-> (o.code = 0)]

\* test_port without its except clause
test_port_Unguarded(o) == TrySocket(o)

\* test_port(ip, port, timeout) of diagnose_connectivity.py, on the socket
\* calls o: `except:` catches every exception
test_port(o) ==
    LET body == TrySocket(o)
    IN  IF body.raised # "" THEN [raised |-> "", value |-> FALSE] ELSE body

\* test_ip_connectivity on the socket calls o: `except Exception` catches
\* the subclasses of Exception
SocketTest(o) ==
    LET body == TrySocket(o)
    IN  IF body.raised # "" /\ body.raised \notin NotExceptions
        THEN [raised |-> "", value |-> FALSE]
        ELSE body

\* test_ip_connectivity(ip, port)
test_ip_connectivity(ip, port) == SocketTest(SocketCallsAt(ip, port)).value

\* The classes of requests.exceptions.RequestException
RequestExceptions ==
    { "ConnectionError", "ConnectTimeout", "ReadTimeout", "TooManyRedirects",
      "InvalidURL", "ChunkedEncodingError", "SSLError" }

\* test_http_connectivity catching requests.exceptions.ConnectionError only
HttpTest_ConnectionErrorOnly(response) ==
    IF response.raised = ""
    THEN [raised |-> "", has_status |-> TRUE,
          status_code |-> response.status_code,
          content_type |-> IF response.headers = << >> THEN "unknown"
                           ELSE response.headers[1]]
    ELSE IF response.raised = "ConnectionError"
    THEN [raised |-> "", has_status |-> FALSE, status_code |-> 0,
          content_type |-> response.error]
    ELSE [raised |-> response.raised, has_status |-> FALSE, status_code |-> 0,
          content_type |-> ""]

\* test_http_connectivity on what requests.get gives: (status_code,
\* content_type); has_status is FALSE where the code returns None for the
\* status, raised names the exception that leaves the function.
HttpTest(response) ==
    IF response.raised = ""
    THEN [raised |-> "", has_status |-> TRUE,
          status_code |-> response.status_code,
          content_type |-> IF response.headers = << >> THEN "unknown"
                           ELSE response.headers[1]]
    ELSE IF response.raised \in RequestExceptions
    THEN [raised |-> "", has_status |-> FALSE, status_code |-> 0,
          content_type |-> response.error]
    ELSE [raised |-> response.raised, has_status |-> FALSE, status_code |-> 0,
          content_type |-> ""]

\* test_http_connectivity(url)
test_http_connectivity(url) == HttpTest(RequestsGet(url))

base_ips == << "192.168.1", "192.168.0", "10.0.0", "172.16.0" >>
common_host_numbers == << 8, 100, 101, 102, 103, 104, 105, 200, 201, 202 >>

\* The k-th address of `for base_ip in base_ips: for host_num in
\* common_host_numbers:`, f"{base_ip}.{host_num}"
CommonAddress(k) ==
    HostAddress(base_ips[((k - 1) \div Len(common_host_numbers)) + 1],
                common_host_numbers[((k - 1) % Len(common_host_numbers)) + 1])

\* The turns of the loops of scan_network_for_camera from the k-th on: what
\* they append to found_servers
RECURSIVE FoundFrom(_)
FoundFrom(k) ==
    IF k > Len(base_ips) * Len(common_host_numbers) THEN << >>
    ELSE LET ip       == CommonAddress(k)
             test_url == Url(ip, 8080, "my_mac_camera")
             probe    == test_http_connectivity(test_url)
         IN  (IF /\ test_ip_connectivity(ip, 8080)
                 /\ probe.has_status
                 /\ probe.status_code # 0
              THEN << [ip |-> ip, url |-> test_url,
                       status |-> probe.status_code,
                       content_type |-> probe.content_type] >>
              ELSE << >>) \o FoundFrom(k + 1)

\* scan_network_for_camera()
scan_network_for_camera == FoundFrom(1)

\* ping_host with the test of the return code inverted
ping_host_Inverted(network_base, host_num) ==
    LET ip     == HostAddress(network_base, host_num)
        result == PingRun(ip)
    IN  IF result.raised = "" /\ result.returncode # 0
        THEN << ip >> ELSE NoResult

\* ping_host(host_num) of ping_sweep(network_base); an exception of
\* subprocess.run is caught and None returned
ping_host(network_base, host_num) ==
    LET ip     == HostAddress(network_base, host_num)
        result == PingRun(ip)
    IN  IF result.raised = "" /\ result.returncode = 0
        THEN << ip >> ELSE NoResult

PiNames == { "raspberry", "pi", "rpi" }

\* check_raspberry_pi counting a matching host name twice
check_raspberry_pi_HostnameBonus(ip) ==
    LET ssh    == IF test_ip_connectivity(ip, 22) THEN << "SSH" >> ELSE << >>
        web    == IF test_ip_connectivity(ip, 80) THEN << "HTTP" >> ELSE << >>
        camera == IF test_ip_connectivity(ip, 8080) THEN << "Camera" >> ELSE << >>
        vnc    == IF test_ip_connectivity(ip, 5900) THEN << "VNC" >> ELSE << >>
        lookup == GetHostByAddr(ip)
        name   == IF /\ ~lookup.raised
                     /\ \E pi_name \in PiNames :
                            Contains(pi_name, Lower(lookup.hostname))
                  THEN << "Hostname: " \o lookup.hostname >>
                  ELSE << >>
        pi_indicators == ssh \o web \o camera \o vnc \o name
    IN  IF pi_indicators # << >>
        THEN << [ip |-> ip, indicators |-> pi_indicators,
                 confidence |-> Len(pi_indicators) + 2 * Len(name)] >>
        ELSE NoResult

\* check_raspberry_pi returning a device only when a port answered
check_raspberry_pi_PortsOnly(ip) ==
    LET ssh    == IF test_ip_connectivity(ip, 22) THEN << "SSH" >> ELSE << >>
        web    == IF test_ip_connectivity(ip, 80) THEN << "HTTP" >> ELSE << >>
        camera == IF test_ip_connectivity(ip, 8080) THEN << "Camera" >> ELSE << >>
        vnc    == IF test_ip_connectivity(ip, 5900) THEN << "VNC" >> ELSE << >>
        lookup == GetHostByAddr(ip)
        name   == IF /\ ~lookup.raised
                     /\ \E pi_name \in PiNames :
                            Contains(pi_name, Lower(lookup.hostname))
                  THEN << "Hostname: " \o lookup.hostname >>
                  ELSE << >>
        pi_indicators == ssh \o web \o camera \o vnc \o name
    IN  IF ssh \o web \o camera \o vnc # << >>
        THEN << [ip |-> ip, indicators |-> pi_indicators,
                 confidence |-> Len(pi_indicators)] >>
        ELSE NoResult

\* check_raspberry_pi giving up on an address whose reverse lookup raises
check_raspberry_pi_LookupAborts(ip) ==
    LET ssh    == IF test_ip_connectivity(ip, 22) THEN << "SSH" >> ELSE << >>
        web    == IF test_ip_connectivity(ip, 80) THEN << "HTTP" >> ELSE << >>
        camera == IF test_ip_connectivity(ip, 8080) THEN << "Camera" >> ELSE << >>
        vnc    == IF test_ip_connectivity(ip, 5900) THEN << "VNC" >> ELSE << >>
        lookup == GetHostByAddr(ip)
        name   == IF /\ ~lookup.raised
                     /\ \E pi_name \in PiNames :
                            Contains(pi_name, Lower(lookup.hostname))
                  THEN << "Hostname: " \o lookup.hostname >>
                  ELSE << >>
        pi_indicators == ssh \o web \o camera \o vnc \o name
    IN  IF pi_indicators # << >> /\ ~lookup.raised
        THEN << [ip |-> ip, indicators |-> pi_indicators,
                 confidence |-> Len(pi_indicators)] >>
        ELSE NoResult

\* check_raspberry_pi(ip)
check_raspberry_pi(ip) ==
    LET ssh    == IF test_ip_connectivity(ip, 22) THEN << "SSH" >> ELSE << >>
        web    == IF test_ip_connectivity(ip, 80) THEN << "HTTP" >> ELSE << >>
        camera == IF test_ip_connectivity(ip, 8080) THEN << "Camera" >> ELSE << >>
        vnc    == IF test_ip_connectivity(ip, 5900) THEN << "VNC" >> ELSE << >>
        lookup == GetHostByAddr(ip)
        name   == IF /\ ~lookup.raised
                     /\ \E pi_name \in PiNames :
                            Contains(pi_name, Lower(lookup.hostname))
                  THEN << "Hostname: " \o lookup.hostname >>
                  ELSE << >>
        pi_indicators == ssh \o web \o camera \o vnc \o name
    IN  IF pi_indicators # << >>
        THEN << [ip |-> ip, indicators |-> pi_indicators,
                 confidence |-> Len(pi_indicators)] >>
        ELSE NoResult

\* How many of the flags are set: sum(pi_indicators.values())
CountTrue(flags) == Cardinality({ k \in DOMAIN flags : flags[k] })

\* scan_for_raspberry_pi of diagnose_connectivity.py, the body of its loop
\* for one address: probe holds the socket calls of the four test_port
\* probes, lookup what gethostbyaddr gives.  The device appended, or none.
scan_for_raspberry_pi(probe, lookup) ==
    LET pi_indicators == [ssh    |-> test_port(probe.ssh).value,
                          http   |-> test_port(probe.http).value,
                          camera |-> test_port(probe.camera).value,
                          vnc    |-> test_port(probe.vnc).value]
        matched == /\ ~lookup.raised
                   /\ \E term \in { "raspberry", "pi", "rpi" } :
                          Contains(term, Lower(lookup.hostname))
    IN  IF \E k \in DOMAIN pi_indicators : pi_indicators[k]
        THEN << [services   |-> pi_indicators,
                 confidence |-> CountTrue(pi_indicators)
                                    + (IF matched THEN 2 ELSE 0),
                 hostname   |-> IF lookup.raised THEN << >>
                                ELSE << lookup.hostname >>] >>
        ELSE << >>

MediaTypes == { "image", "video", "stream", "mjpeg", "jpeg" }

\* check_camera_server comparing the content type without lower-casing it
check_camera_server_CaseSensitive(pi_device, port, endpoint) ==
    LET ip       == pi_device.ip
        test_url == Url(ip, port, endpoint)
        probe    == test_http_connectivity(test_url)
    IN  IF /\ probe.raised = ""
           /\ probe.has_status
           /\ probe.status_code # 0
           /\ probe.status_code = 200
           /\ \E media_type \in MediaTypes :
                  Contains(media_type, probe.content_type)
        THEN << [ip |-> ip, port |-> port, endpoint |-> endpoint,
                 url |-> test_url, status |-> probe.status_code,
                 content_type |-> probe.content_type,
                 pi_confidence |-> pi_device.confidence] >>
        ELSE NoResult

\* check_camera_server leaving the device's confidence out of its result
check_camera_server_NoConfidence(pi_device, port, endpoint) ==
    LET ip       == pi_device.ip
        test_url == Url(ip, port, endpoint)
        probe    == test_http_connectivity(test_url)
    IN  IF /\ probe.raised = ""
           /\ probe.has_status
           /\ probe.status_code # 0
           /\ probe.status_code = 200
           /\ \E media_type \in MediaTypes :
                  Contains(media_type, Lower(probe.content_type))
        THEN << [ip |-> ip, port |-> port, endpoint |-> endpoint,
                 url |-> test_url, status |-> probe.status_code,
                 content_type |-> probe.content_type,
                 pi_confidence |-> 0] >>
        ELSE NoResult

\* check_camera_server(pi_device, port, endpoint)
check_camera_server(pi_device, port, endpoint) ==
    LET ip       == pi_device.ip
        test_url == Url(ip, port, endpoint)
        probe    == test_http_connectivity(test_url)
    IN  IF /\ probe.raised = ""
           /\ probe.has_status
           /\ probe.status_code # 0
           /\ probe.status_code = 200
           /\ \E media_type \in MediaTypes :
                  Contains(media_type, Lower(probe.content_type))
        THEN << [ip |-> ip, port |-> port, endpoint |-> endpoint,
                 url |-> test_url, status |-> probe.status_code,
                 content_type |-> probe.content_type,
                 pi_confidence |-> pi_device.confidence] >>
        ELSE NoResult

camera_ports == << 8080, 8081, 8082, 8000, 8001, 5000, 5001, 80, 443 >>
camera_endpoints == << "my_mac_camera", "video", "stream", "camera", "mjpeg",
                       "feed", "cam", "webcam", "snapshot", "image" >>

\* a maximum that keeps the last of the elements with the greatest key
RECURSIVE MaxFrom_LastWins(_, _, _)
MaxFrom_LastWins(servers, i, best) ==
    IF i > Len(servers) THEN best
    ELSE MaxFrom_LastWins(servers, i + 1,
                          IF servers[i].pi_confidence >= best.pi_confidence
                          THEN servers[i] ELSE best)

\* max(servers, key=lambda x: x['pi_confidence']) of a non-empty list: the
\* first element whose key no other element exceeds.
RECURSIVE MaxFrom(_, _, _)
MaxFrom(servers, i, best) ==
    IF i > Len(servers) THEN best
    ELSE MaxFrom(servers, i + 1,
                 IF servers[i].pi_confidence > best.pi_confidence
                 THEN servers[i] ELSE best)

MaxByConfidence(servers) == MaxFrom(servers, 2, servers[1])

-----------------------------------------------------------------------------
(* Tasks of the executors.  A task names its stage, the executor it was    *)
(* submitted to (key: the index of the network base or of the device) and  *)
(* its position among that executor's futures, and carries its arguments.  *)

Task(stage, key, i, base, host_num, ip, device, port, endpoint) ==
    [stage |-> stage, key |-> key, i |-> i, base |-> base,
     host_num |-> host_num, ip |-> ip, device |-> device, port |-> port,
     endpoint |-> endpoint]

NoDevice == [ip |-> "", indicators |-> << >>, confidence |-> 0]

\* [executor.submit(ping_host, i) for i in range(start_range, end_range + 1)]
PingFutures(key, network_base) ==
    [i \in 1..MaxHost |-> Task("ping", key, i, network_base, i, "", NoDevice, 0, "")]

\* [executor.submit(check_raspberry_pi, ip) for ip in active_hosts]
PiFutures(hosts) ==
    [i \in 1..Len(hosts) |->
        Task("pi", 0, i, "", 0, hosts[i], NoDevice, 0, "")]

\* every (port, endpoint) pair submitted a second time after the first round
CameraFutures_Twice(key, pi_device) ==
    [i \in 1..(2 * NPorts * NEndpoints) |->
        Task("cam", key, i, "", 0, "", pi_device,
             camera_ports[(((i - 1) % (NPorts * NEndpoints)) \div NEndpoints) + 1],
             camera_endpoints[((i - 1) % NEndpoints) + 1])]

\* for port in camera_ports: for endpoint in camera_endpoints:
\*     futures.append(executor.submit(check_camera_server, pi_device, port, endpoint))
CameraFutures(key, pi_device) ==
    [i \in 1..(NPorts * NEndpoints) |->
        Task("cam", key, i, "", 0, "", pi_device,
             camera_ports[((i - 1) \div NEndpoints) + 1],
             camera_endpoints[((i - 1) % NEndpoints) + 1])]

\* What the call of a task returns.
TaskResult(t) ==
    CASE t.stage = "ping" -> ping_host(t.base, t.host_num)
      [] t.stage = "pi"   -> check_raspberry_pi(t.ip)
      [] t.stage = "cam"  -> check_camera_server(t.device, t.port, t.endpoint)

\* max_workers of the executor of a stage
MaxWorkers(stage) ==
    CASE stage = "ping" -> PingWorkers
      [] stage = "pi"   -> PiWorkers
      [] stage = "cam"  -> CameraWorkers

Stages == { "ping", "pi", "cam" }

\* The key of the executor open now.
PoolKey == CASE pc = "ping" -> rangeIdx
             [] pc = "pi"   -> 0
             [] pc = "cam"  -> devIdx
             [] OTHER       -> 0

-----------------------------------------------------------------------------
(* The executor: submit, the worker threads, as_completed.                 *)

InPool == pc \in Stages

\* with ThreadPoolExecutor(max_workers=...) as executor: a fresh executor,
\* and every call is submitted to it.  The submissions are one step: a call
\* can start no earlier than its submission and as_completed is called after
\* the last one, so every interleaving of the submissions with the workers
\* has the same starts, returns and yields as one in which they come first.
OpenPool(tasks) ==
    /\ futures' = tasks
    /\ started' = 0
    /\ finished' = { }
    /\ ready' = { }

\* the executor is left once every call was started and the results so far
\* were read (shutdown(wait=False) and a loop that does not wait)
PoolDrained_NoWait ==
    /\ started = Len(futures)
    /\ ready = { }

\* `for future in as_completed(futures)` has ended and the with block has
\* been left (shutdown(wait=True)): every call has returned and every
\* future has been yielded.
PoolDrained ==
    /\ finished = 1..Len(futures)
    /\ ready = { }

Bump(f, stage) == [f EXCEPT ![stage] = @ + 1]

\* a worker thread per call: the executor's max_workers is not honoured
StartTask_Unbounded ==
    /\ InPool
    /\ started < Len(futures)
    /\ started' = started + 1
    /\ running' = running \cup { futures[started + 1] }
    /\ stats' = [stats EXCEPT !.started = Bump(@, pc)]
    /\ UNCHANGED << envVars, mainVars, pc, futures, finished, ready >>

\* worker threads that end with their first call: only the first
\* max_workers calls of an executor are ever started
StartTask_NoReuse ==
    /\ InPool
    /\ started < Len(futures)
    /\ started < MaxWorkers(pc)
    /\ started' = started + 1
    /\ running' = running \cup { futures[started + 1] }
    /\ stats' = [stats EXCEPT !.started = Bump(@, pc)]
    /\ UNCHANGED << envVars, mainVars, pc, futures, finished, ready >>

\* a worker thread takes the oldest queued call, if fewer than max_workers
\* calls are executing
StartTask ==
    /\ InPool
    /\ started < Len(futures)
    /\ Cardinality(running) < MaxWorkers(pc)
    /\ started' = started + 1
    /\ running' = running \cup { futures[started + 1] }
    /\ stats' = [stats EXCEPT !.started = Bump(@, pc)]
    /\ UNCHANGED << envVars, mainVars, pc, futures, finished, ready >>

\* a call returns: its future is finished.  A future whose result is None is
\* yielded by as_completed and skipped by the loop (`if result:`), which
\* changes nothing, so only the futures with a result are kept to be yielded.
FinishTask ==
    \E t \in running :
        /\ running' = running \ { t }
        /\ stats' = [stats EXCEPT !.done = Bump(@, t.stage)]
        /\ IF t.stage = pc /\ t.key = PoolKey
           THEN /\ finished' = finished \cup { t.i }
                /\ ready' = ready \cup
                      { [i |-> t.i, result |-> r] : r \in Range(TaskResult(t)) }
           ELSE UNCHANGED << finished, ready >>
        /\ UNCHANGED << envVars, mainVars, pc, futures, started >>

\* The futures as_completed may yield next.  It yields those that finished
\* before it was called in no particular order and the others in the order
\* they finish; as the main thread may reach the call at any moment, all
\* the finished futures may have finished before it, so any of them may be
\* the next one.
Yieldable == ready

\* the future f has been yielded
Yielded(f) == ready' = ready \ { f }

-----------------------------------------------------------------------------
(* The main thread: get_local_network_ranges, ping_sweep,                  *)
(* scan_for_raspberry_pi_devices, scan_raspberry_pi_for_cameras,           *)
(* auto_discover_camera_servers and main.                                  *)

\* get_local_network_ranges()
get_local_network_ranges(local_ip) ==
    IF local_ip = << >>
    THEN SubSeq(FallbackRanges, 1, NBases)
    ELSE LET network      == NetworkAddress(local_ip)
             base_network == SubSeq(network, 1, Len(network) - 1)
         IN  << base_network >>

\* auto_discover_camera_servers, step 1
GetRanges ==
    /\ pc = "start"
    /\ network_ranges' = get_local_network_ranges(localIp)
    /\ all_active_hosts' = << >>
    /\ rangeIdx' = 1
    /\ pc' = "sweep"
    /\ UNCHANGED << envVars, poolVars, running, stats, active_hosts,
                    classified, raspberry_pi_hosts, devIdx, camera_servers,
                    discovered_servers, best_server >>

\* ping_sweep(network_base) is entered for the next network base
PingSweepBegin ==
    /\ pc = "sweep"
    /\ rangeIdx <= Len(network_ranges)
    /\ active_hosts' = << >>
    /\ OpenPool(PingFutures(rangeIdx, network_ranges[rangeIdx]))
    /\ pc' = "ping"
    /\ UNCHANGED << envVars, running, stats, network_ranges, rangeIdx,
                    all_active_hosts, classified, raspberry_pi_hosts, devIdx,
                    camera_servers, discovered_servers, best_server >>

\* a turn of the loop of ping_sweep that replaces the list by the new result
PingCollect_Overwrite ==
    /\ pc = "ping"
    /\ \E f \in Yieldable :
        /\ Yielded(f)
        /\ active_hosts' = << f.result >>
    /\ UNCHANGED << envVars, running, stats, pc, futures, started, finished,
                    network_ranges, rangeIdx, all_active_hosts, classified,
                    raspberry_pi_hosts, devIdx, camera_servers,
                    discovered_servers, best_server >>

\* ping_sweep: one turn of `for future in as_completed(futures)`
PingCollect ==
    /\ pc = "ping"
    /\ \E f \in Yieldable :
        /\ Yielded(f)
        /\ active_hosts' = Append(active_hosts, f.result)
    /\ UNCHANGED << envVars, running, stats, pc, futures, started, finished,
                    network_ranges, rangeIdx, all_active_hosts, classified,
                    raspberry_pi_hosts, devIdx, camera_servers,
                    discovered_servers, best_server >>

\* ping_sweep returns; all_active_hosts.extend(active_hosts)
PingSweepEnd ==
    /\ pc = "ping"
    /\ PoolDrained
    /\ all_active_hosts' = all_active_hosts \o active_hosts
    /\ rangeIdx' = rangeIdx + 1
    /\ pc' = "sweep"
    /\ UNCHANGED << envVars, poolVars, running, stats, network_ranges,
                    active_hosts, classified, raspberry_pi_hosts, devIdx,
                    camera_servers, discovered_servers, best_server >>

\* auto_discover_camera_servers: `if not all_active_hosts: return []`
NoActiveHosts ==
    /\ pc = "sweep"
    /\ rangeIdx > Len(network_ranges)
    /\ all_active_hosts = << >>
    /\ discovered_servers' = << >>
    /\ pc' = "main"
    /\ UNCHANGED << envVars, poolVars, running, stats, network_ranges,
                    rangeIdx, active_hosts, all_active_hosts, classified,
                    raspberry_pi_hosts, devIdx, camera_servers, best_server >>

\* scan_for_raspberry_pi_devices(all_active_hosts) is entered
ScanPiBegin ==
    /\ pc = "sweep"
    /\ rangeIdx > Len(network_ranges)
    /\ all_active_hosts # << >>
    /\ raspberry_pi_hosts' = << >>
    /\ OpenPool(PiFutures(all_active_hosts))
    /\ pc' = "pi"
    /\ UNCHANGED << envVars, running, stats, network_ranges, rangeIdx,
                    active_hosts, all_active_hosts, classified, devIdx,
                    camera_servers, discovered_servers, best_server >>

\* scan_for_raspberry_pi_devices: one turn of `for future in as_completed(futures)`
PiCollect ==
    /\ pc = "pi"
    /\ \E f \in Yieldable :
        /\ Yielded(f)
        /\ raspberry_pi_hosts' = Append(raspberry_pi_hosts, f.result)
    /\ UNCHANGED << envVars, running, stats, pc, futures, started, finished,
                    network_ranges, rangeIdx, active_hosts, all_active_hosts,
                    classified, devIdx, camera_servers, discovered_servers,
                    best_server >>

\* the fallback devices given the confidence of one indicator
AllHostsAsDevices_Confident(hosts) ==
    [i \in 1..Len(hosts) |->
        [ip |-> hosts[i], indicators |-> << >>, confidence |-> 1]]

\* [{'ip': ip, 'indicators': [], 'confidence': 0} for ip in all_active_hosts]
AllHostsAsDevices(hosts) ==
    [i \in 1..Len(hosts) |->
        [ip |-> hosts[i], indicators |-> << >>, confidence |-> 0]]

\* scan_for_raspberry_pi_devices returns; `if not raspberry_pi_hosts:` every
\* active host becomes a device; scan_raspberry_pi_for_cameras is entered
ScanPiEnd ==
    /\ pc = "pi"
    /\ PoolDrained
    /\ classified' = raspberry_pi_hosts
    /\ raspberry_pi_hosts' =
          IF raspberry_pi_hosts = << >>
          THEN AllHostsAsDevices(all_active_hosts)
          ELSE raspberry_pi_hosts
    /\ camera_servers' = << >>
    /\ devIdx' = 1
    /\ pc' = "scan"
    /\ UNCHANGED << envVars, poolVars, running, stats, network_ranges,
                    rangeIdx, active_hosts, all_active_hosts,
                    discovered_servers, best_server >>

\* scan_raspberry_pi_for_cameras: the next pi_device, its executor is opened
CameraBegin ==
    /\ pc = "scan"
    /\ devIdx <= Len(raspberry_pi_hosts)
    /\ OpenPool(CameraFutures(devIdx, raspberry_pi_hosts[devIdx]))
    /\ pc' = "cam"
    /\ UNCHANGED << envVars, running, stats, mainVars >>

\* the loop of scan_raspberry_pi_for_cameras inserting at the front
CameraCollect_Prepend ==
    /\ pc = "cam"
    /\ \E f \in Yieldable :
        /\ Yielded(f)
        /\ camera_servers' = << f.result >> \o camera_servers
    /\ UNCHANGED << envVars, running, stats, pc, futures, started, finished,
                    network_ranges, rangeIdx, active_hosts, all_active_hosts,
                    classified, raspberry_pi_hosts, devIdx,
                    discovered_servers, best_server >>

\* scan_raspberry_pi_for_cameras: one turn of `for future in as_completed(futures)`
CameraCollect ==
    /\ pc = "cam"
    /\ \E f \in Yieldable :
        /\ Yielded(f)
        /\ camera_servers' = Append(camera_servers, f.result)
    /\ UNCHANGED << envVars, running, stats, pc, futures, started, finished,
                    network_ranges, rangeIdx, active_hosts, all_active_hosts,
                    classified, raspberry_pi_hosts, devIdx,
                    discovered_servers, best_server >>

\* the with block of one pi_device is left
CameraEnd ==
    /\ pc = "cam"
    /\ PoolDrained
    /\ devIdx' = devIdx + 1
    /\ pc' = "scan"
    /\ UNCHANGED << envVars, poolVars, running, stats, network_ranges,
                    rangeIdx, active_hosts, all_active_hosts, classified,
                    raspberry_pi_hosts, camera_servers, discovered_servers,
                    best_server >>

\* scan_raspberry_pi_for_cameras and auto_discover_camera_servers return
ReturnServers ==
    /\ pc = "scan"
    /\ devIdx > Len(raspberry_pi_hosts)
    /\ discovered_servers' = camera_servers
    /\ pc' = "main"
    /\ UNCHANGED << envVars, poolVars, running, stats, network_ranges,
                    rangeIdx, active_hosts, all_active_hosts, classified,
                    raspberry_pi_hosts, devIdx, camera_servers, best_server >>

\* main: `if discovered_servers:` best_server = max(discovered_servers, ...)
SelectBest ==
    /\ pc = "main"
    /\ best_server' = IF discovered_servers # << >>
                      THEN << MaxByConfidence(discovered_servers) >>
                      ELSE << >>
    /\ pc' = "done"
    /\ UNCHANGED << envVars, poolVars, running, stats, network_ranges,
                    rangeIdx, active_hosts, all_active_hosts, classified,
                    raspberry_pi_hosts, devIdx, camera_servers,
                    discovered_servers >>

-----------------------------------------------------------------------------
(* The specification of one run.                                           *)

NoStats == [started |-> [s \in Stages |-> 0], done |-> [s \in Stages |-> 0]]

NoRun == [done |-> FALSE, urls |-> { }, best |-> << >>]

Fresh ==
    /\ pc = "start"
    /\ network_ranges = << >>
    /\ rangeIdx = 1
    /\ active_hosts = << >>
    /\ all_active_hosts = << >>
    /\ classified = << >>
    /\ raspberry_pi_hosts = << >>
    /\ devIdx = 1
    /\ camera_servers = << >>
    /\ discovered_servers = << >>
    /\ best_server = << >>
    /\ futures = << >>
    /\ started = 0
    /\ running = { }
    /\ finished = { }
    /\ ready = { }
    /\ stats = NoStats
    /\ found_servers = << >>
    /\ total_servers = << >>

\* No function is called on its own in a run of the script.
NoCall == [fn |-> "", arg |-> << >>]

Init ==
    /\ localIp \in LocalIps
    /\ net \in Networks
    /\ firstRun = NoRun
    /\ call = NoCall
    /\ ret = << >>
    /\ Fresh

Next ==
    \/ GetRanges
    \/ PingSweepBegin
    \/ PingCollect
    \/ PingSweepEnd
    \/ NoActiveHosts
    \/ ScanPiBegin
    \/ PiCollect
    \/ ScanPiEnd
    \/ CameraBegin
    \/ CameraCollect
    \/ CameraEnd
    \/ ReturnServers
    \/ SelectBest
    \/ StartTask
    \/ FinishTask

Spec == Init /\ [][Next]_vars

\* The steps of the main thread
MainThread ==
    \/ GetRanges
    \/ PingSweepBegin
    \/ PingCollect
    \/ PingSweepEnd
    \/ NoActiveHosts
    \/ ScanPiBegin
    \/ PiCollect
    \/ ScanPiEnd
    \/ CameraBegin
    \/ CameraCollect
    \/ CameraEnd
    \/ ReturnServers
    \/ SelectBest

\* A run in which the main thread goes on whenever it can, an idle worker
\* takes a queued call and every call that was started returns.
SpecFair ==
    /\ Init
    /\ [][Next]_vars
    /\ WF_vars(MainThread)
    /\ WF_vars(StartTask)
    /\ WF_vars(FinishTask)

-----------------------------------------------------------------------------
(* Two runs of the script against the same network.                        *)

\* The script has ended; it is started again.  Nothing is kept from the
\* first run but the record of its outcome.
Restart ==
    /\ pc = "done"
    /\ ~firstRun.done
    /\ firstRun' = [done |-> TRUE, urls |-> Range(discovered_servers),
                    best |-> best_server]
    /\ pc' = "start"
    /\ network_ranges' = << >>
    /\ rangeIdx' = 1
    /\ active_hosts' = << >>
    /\ all_active_hosts' = << >>
    /\ classified' = << >>
    /\ raspberry_pi_hosts' = << >>
    /\ devIdx' = 1
    /\ camera_servers' = << >>
    /\ discovered_servers' = << >>
    /\ best_server' = << >>
    /\ futures' = << >>
    /\ started' = 0
    /\ finished' = { }
    /\ ready' = { }
    /\ stats' = NoStats
    /\ UNCHANGED << localIp, net, running, call, ret, found_servers,
                    total_servers >>

NextRerun == Next \/ Restart

SpecRerun == Init /\ [][NextRerun]_vars

-----------------------------------------------------------------------------
(* The classifier and the resolver called on a given list of addresses:    *)
(* auto_discover_camera_servers from its step 3 on.  The caller chooses    *)
(* the list, which may name an address twice.                              *)

\* The camera of the scenario at 10.0.0.5, beside a host that is down or
\* answers on port 22 only; nothing else serves HTTP.
ScanNetworks ==
    { [ip \in Addresses |->
          IF ip = "10.0.0.5" THEN "mjpegcam"
          ELSE IF ip = HostAddress(FallbackRanges[1], 1) THEN kind
          ELSE "down"] : kind \in { "down", "sshonly" } }

\* The address lists given: one or two addresses, the same one twice included
ScanInputs ==
    LET given == { "10.0.0.5", HostAddress(FallbackRanges[1], 1) }
    IN  { << a >> : a \in given } \cup { << a, b >> : a \in given, b \in given }

InitScan ==
    /\ localIp = << >>
    /\ net \in ScanNetworks
    /\ firstRun = NoRun
    /\ call = NoCall
    /\ ret = << >>
    /\ pc = "sweep"
    /\ network_ranges = << >>
    /\ rangeIdx = 1
    /\ active_hosts = << >>
    /\ all_active_hosts \in ScanInputs
    /\ classified = << >>
    /\ raspberry_pi_hosts = << >>
    /\ devIdx = 1
    /\ camera_servers = << >>
    /\ discovered_servers = << >>
    /\ best_server = << >>
    /\ futures = << >>
    /\ started = 0
    /\ running = { }
    /\ finished = { }
    /\ ready = { }
    /\ stats = NoStats
    /\ found_servers = << >>
    /\ total_servers = << >>

NextScan ==
    \/ ScanPiBegin
    \/ PiCollect
    \/ ScanPiEnd
    \/ CameraBegin
    \/ CameraCollect
    \/ CameraEnd
    \/ ReturnServers
    \/ StartTask
    \/ FinishTask

SpecScan == InitScan /\ [][NextScan]_vars

-----------------------------------------------------------------------------
(* main from the classification to its return, in a network whose sweep    *)
(* found the default address 192.168.1.8 of the camera server.             *)

\* At 192.168.1.8 the camera server, a Raspberry Pi with a camera or no
\* host; at 192.168.1.1 a camera or no host.
MainNetworks ==
    { [ip \in Addresses |->
          IF ip = "192.168.1.8" THEN server
          ELSE IF ip = HostAddress(FallbackRanges[1], 1) THEN other
          ELSE "down"] :
      server \in { "maccam", "picam", "down" }, other \in { "cam1", "down" } }

\* What the sweeps can have returned in the network n: its responders, in
\* the order their pings completed
SweepResults(n) ==
    LET up == { ip \in DOMAIN n : n[ip] # "down" }
    IN  { hosts \in { << >> } \cup { << a >> : a \in up }
                        \cup { << a, b >> : a \in up, b \in up } :
            /\ Range(hosts) = up
            /\ Len(hosts) = Cardinality(up) }

InitMain ==
    /\ localIp = << >>
    /\ net \in MainNetworks
    /\ firstRun = NoRun
    /\ call = NoCall
    /\ ret = << >>
    /\ pc = "sweep"
    /\ network_ranges = << >>
    /\ rangeIdx = 1
    /\ active_hosts = << >>
    /\ all_active_hosts \in SweepResults(net)
    /\ classified = << >>
    /\ raspberry_pi_hosts = << >>
    /\ devIdx = 1
    /\ camera_servers = << >>
    /\ discovered_servers = << >>
    /\ best_server = << >>
    /\ futures = << >>
    /\ started = 0
    /\ running = { }
    /\ finished = { }
    /\ ready = { }
    /\ stats = NoStats
    /\ found_servers = << >>
    /\ total_servers = << >>

\* main, MANUAL TESTING MODE and SUMMARY: found_servers =
\* scan_network_for_camera(); total_servers = len(discovered_servers) +
\* len(found_servers)
ManualSummary ==
    /\ pc = "done"
    /\ found_servers' = scan_network_for_camera
    /\ total_servers' = << Len(discovered_servers) + Len(found_servers') >>
    /\ pc' = "exit"
    /\ UNCHANGED << localIp, net, firstRun, call, ret, running, stats,
                    mainVars, poolVars >>

\* return total_servers > 0
success == total_servers # << >> /\ total_servers[1] > 0

\* sys.exit(0 if success else 1)
ExitCode == IF success THEN 0 ELSE 1

NextMain ==
    \/ NoActiveHosts
    \/ ScanPiBegin
    \/ PiCollect
    \/ ScanPiEnd
    \/ CameraBegin
    \/ CameraCollect
    \/ CameraEnd
    \/ ReturnServers
    \/ SelectBest
    \/ ManualSummary
    \/ StartTask
    \/ FinishTask

SpecMain == InitMain /\ [][NextMain]_vars

-----------------------------------------------------------------------------
(* The probe functions called on their own, on every outcome of the        *)
(* library calls they make.                                                *)

\* What a socket call raises when it fails
SocketErrors == { "OSError", "timeout", "gaierror", "OverflowError" }

\* What connect_ex returns: 0, ECONNREFUSED, ETIMEDOUT, EHOSTUNREACH
ConnectCodes == { 0, 111, 110, 113 }

\* The outcomes of the socket calls of one probe: none raises, or one does
\* (the calls after it are not made).
SocketOutcomes ==
    { SocketCalls("", "", "", code, "") : code \in ConnectCodes }
        \cup { SocketCalls(e, "", "", code, "") :
                   e \in SocketErrors, code \in ConnectCodes }
        \cup { SocketCalls("", e, "", code, "") :
                   e \in SocketErrors, code \in ConnectCodes }
        \cup { SocketCalls("", "", e, code, "") :
                   e \in SocketErrors, code \in ConnectCodes }
        \cup { SocketCalls("", "", "", code, e) :
                   e \in SocketErrors, code \in ConnectCodes }

TcpProbes == { "test_ip_connectivity", "test_port" }

TcpCalls == { [fn |-> fn, arg |-> o] : fn \in TcpProbes, o \in SocketOutcomes }

\* What requests.get may give: a response, or a failure of the connection or
\* of the protocol
HttpOutcomes ==
    { Response(status_code, headers) :
          status_code \in { 200, 204, 301, 404, 500 },
          headers \in { << >>, << "" >>, << "image/jpeg" >>, << "text/html" >>,
                        << "Video/MJPEG" >> } }
        \cup { Failure(class, class \o ": " \o error) :
                   class \in RequestExceptions,
                   error \in { "Max retries exceeded", "Read timed out.",
                               "Connection aborted." } }

HttpCalls == { [fn |-> "test_http_connectivity", arg |-> response] :
                   response \in HttpOutcomes }

\* What the probes of one address meet in diagnose_connectivity.py: each of
\* the four ports accepts, refuses or makes connect_ex raise, and the
\* reverse lookup raises or gives a name.
PortOutcomes ==
    { SocketCalls("", "", "", 0, ""), SocketCalls("", "", "", 111, ""),
      SocketCalls("", "", "gaierror", 0, "") }

LookupOutcomes ==
    { [raised |-> TRUE, hostname |-> ""] }
        \cup { [raised |-> FALSE, hostname |-> name] :
                   name \in { "raspberrypi.local", "laptop.lan", "RPi-4" } }

DeviceCalls ==
    { [fn |-> "scan_for_raspberry_pi",
       arg |-> [probe  |-> [ssh |-> a, http |-> b, camera |-> c, vnc |-> d],
                lookup |-> lookup]] :
          a \in PortOutcomes, b \in PortOutcomes, c \in PortOutcomes,
          d \in PortOutcomes, lookup \in LookupOutcomes }

\* Everything but ret
callFrame == << localIp, net, firstRun, call, running, stats, pc, mainVars,
               poolVars, found_servers, total_servers >>

\* test_ip_connectivity or test_port is called and returns or raises
CallTcpProbe ==
    /\ call.fn \in TcpProbes
    /\ ret = << >>
    /\ ret' = << IF call.fn = "test_port" THEN test_port(call.arg)
                 ELSE SocketTest(call.arg) >>
    /\ UNCHANGED callFrame

\* test_http_connectivity is called and returns or raises
CallHttpProbe ==
    /\ call.fn = "test_http_connectivity"
    /\ ret = << >>
    /\ ret' = << HttpTest(call.arg) >>
    /\ UNCHANGED callFrame

\* scan_for_raspberry_pi handles one address
CallScanDevice ==
    /\ call.fn = "scan_for_raspberry_pi"
    /\ ret = << >>
    /\ ret' = << scan_for_raspberry_pi(call.arg.probe, call.arg.lookup) >>
    /\ UNCHANGED callFrame

InitCalls ==
    /\ localIp = << >>
    /\ net = [ip \in MayRespond |-> "down"]
    /\ firstRun = NoRun
    /\ ret = << >>
    /\ Fresh
    /\ \/ call \in TcpCalls
       \/ call \in HttpCalls
       \/ call \in DeviceCalls

NextCalls ==
    \/ CallTcpProbe
    \/ CallHttpProbe
    \/ CallScanDevice

SpecCalls == InitCalls /\ [][NextCalls]_vars

-----------------------------------------------------------------------------
(* Properties.                                                             *)

ScannedPorts == Range(SubSeq(camera_ports, 1, NPorts))
ScannedEndpoints == Range(SubSeq(camera_endpoints, 1, NEndpoints))

\* auto_discover_camera_servers has returned
Returned == pc \in { "main", "done" }

\* The URLs of the Endpoint Candidates found so far
FoundUrls == { camera_servers[i].url : i \in 1..Len(camera_servers) }

\* The HTTP probe of url returned status 200 and a content type that, in
\* lower case, contains one of the media tokens.
ProbeAccepted(url) ==
    LET probe == test_http_connectivity(url)
    IN  /\ probe.raised = ""
        /\ probe.has_status
        /\ probe.status_code = 200
        /\ \E token \in { "image", "video", "stream", "mjpeg", "jpeg" } :
               Contains(token, Lower(probe.content_type))

\* C1: once scan_raspberry_pi_for_cameras has returned, the URL of a device,
\* port and path is in the returned list if and only if its HTTP probe
\* returned status 200 and a content type containing a media token (case
\* ignored); at every moment the list holds only such URLs.
C1_EndpointIffMediaResponse ==
    /\ \A url \in FoundUrls : ProbeAccepted(url)
    /\ (Returned /\ all_active_hosts # << >>) =>
          \A d \in Range(raspberry_pi_hosts) :
              \A port \in ScannedPorts, endpoint \in ScannedEndpoints :
                  (Url(d.ip, port, endpoint) \in FoundUrls)
                      <=> ProbeAccepted(Url(d.ip, port, endpoint))

\* C1's case: a scan has returned a candidate whose content type matches
\* only when lower-cased, and has left out a URL that answered 200.
C1_Witness ==
    /\ pc = "done"
    /\ \E i \in 1..Len(camera_servers) :
           ~ \E token \in MediaTypes :
                 Contains(token, camera_servers[i].content_type)
    /\ \E d \in Range(raspberry_pi_hosts) :
           \E port \in ScannedPorts, endpoint \in ScannedEndpoints :
               /\ test_http_connectivity(Url(d.ip, port, endpoint)).status_code = 200
               /\ Url(d.ip, port, endpoint) \notin FoundUrls

\* C2: the number of calls executing never exceeds max_workers of the open
\* executor, and every call executing belongs to the open executor: no call
\* of another stage, network base or device is executing.
C2_InFlightWithinCap ==
    /\ Cardinality(running) <= (IF InPool THEN MaxWorkers(pc) ELSE 0)
    /\ \A t \in running : t.stage = pc /\ t.key = PoolKey

\* C2's case: the second device's executor runs max_workers calls while
\* others wait.
C2_Witness ==
    /\ pc = "cam"
    /\ devIdx = 2
    /\ Cardinality(running) = CameraWorkers
    /\ started < Len(futures)

\* C3: while a check_raspberry_pi call executes, every ping_host call of
\* every network base has returned; while a check_camera_server call
\* executes, every check_raspberry_pi call has returned.
C3_StagesAreBarriers ==
    \A t \in running :
        /\ t.stage = "pi" =>
              /\ stats.started["ping"] = MaxHost * Len(network_ranges)
              /\ stats.done["ping"] = stats.started["ping"]
        /\ t.stage = "cam" =>
              /\ stats.started["ping"] = MaxHost * Len(network_ranges)
              /\ stats.done["ping"] = stats.started["ping"]
              /\ stats.started["pi"] = Len(all_active_hosts)
              /\ stats.done["pi"] = stats.started["pi"]

\* C3's case: a resolver probe executes after two network bases were swept
\* and two hosts classified.
C3_Witness ==
    /\ \E t \in running : t.stage = "cam"
    /\ Len(network_ranges) > 1
    /\ Len(all_active_hosts) > 1

\* No address of a swept network base answers the ping.
NoResponders ==
    \A k \in 1..Len(network_ranges) : \A host_num \in 1..MaxHost :
        ~Up(HostAddress(network_ranges[k], host_num))

\* C4: when the sweep found no responder, auto_discover_camera_servers
\* returns the empty list and no classifier or resolver probe was started.
C4_NoRespondersNoProbes ==
    (Returned /\ (all_active_hosts = << >> \/ NoResponders)) =>
        /\ discovered_servers = << >>
        /\ stats.started["pi"] = 0
        /\ stats.started["cam"] = 0

\* C4's case: every swept address was pinged, none answered, the run ended.
C4_Witness ==
    /\ pc = "done"
    /\ all_active_hosts = << >>
    /\ stats.done["ping"] = MaxHost * NBases

\* The resolver has been handed its device list.
Resolving == pc \in { "scan", "cam", "main", "done" } /\ all_active_hosts # << >>

\* The devices of the resolver's calls, submitted or executing.
ProbedDevices ==
    { t.device : t \in { x \in running \cup Range(futures) : x.stage = "cam" } }

\* C5: when the classifier returned no candidate, the resolver's device
\* list is the responder list, entry for entry, with no indicators and
\* confidence 0, and every Endpoint Candidate has pi_confidence 0; when it
\* returned candidates, the device list is the classifier's list; in both
\* cases only devices of that list are probed.
C5_FallbackToAllResponders ==
    Resolving =>
        /\ IF classified = << >>
           THEN /\ Len(raspberry_pi_hosts) = Len(all_active_hosts)
                /\ \A i \in 1..Len(all_active_hosts) :
                       /\ raspberry_pi_hosts[i].ip = all_active_hosts[i]
                       /\ raspberry_pi_hosts[i].indicators = << >>
                       /\ raspberry_pi_hosts[i].confidence = 0
                /\ \A i \in 1..Len(camera_servers) :
                       camera_servers[i].pi_confidence = 0
           ELSE raspberry_pi_hosts = classified
        /\ ProbedDevices \subseteq Range(raspberry_pi_hosts)

\* C5's case: no host looked like a device, two responders were scanned and
\* a camera server was found on one.
C5_Witness ==
    /\ pc = "done"
    /\ classified = << >>
    /\ Len(all_active_hosts) = 2
    /\ camera_servers # << >>

\* The Device Candidates that exist: those the classifier's calls have
\* returned, those of the device lists and those handed to the resolver.
DeviceCandidates ==
    Range(raspberry_pi_hosts) \cup Range(classified) \cup ProbedDevices
        \cup (IF pc = "pi" THEN { f.result : f \in ready } ELSE { })

\* C6: the confidence of every Device Candidate is the length of its
\* indicators list and is not negative, and an entry of the device list is
\* never changed or removed once appended.
C6_ConfidenceCountsIndicators ==
    /\ [](\A d \in DeviceCandidates :
              d.confidence = Len(d.indicators) /\ d.confidence >= 0)
    /\ [][\A i \in 1..Len(raspberry_pi_hosts) :
              /\ i <= Len(raspberry_pi_hosts')
              /\ raspberry_pi_hosts'[i] = raspberry_pi_hosts[i]]_vars

\* C6's case: a candidate with four port indicators and a host-name
\* indicator has been classified and handed to the resolver.
C6_Witness ==
    /\ pc = "cam"
    /\ \E d \in DeviceCandidates :
           /\ d.confidence > 4
           /\ \E i \in 1..Len(d.indicators) :
                  Contains("Hostname", d.indicators[i])

\* Which of the five checks of the classifier fire at ip, and their names.
HostnameMatches(ip) ==
    LET lookup == GetHostByAddr(ip)
    IN  /\ ~lookup.raised
        /\ \E fragment \in { "raspberry", "pi", "rpi" } :
               Contains(fragment, Lower(lookup.hostname))

Fired(ip) ==
    << ConnectEx(ip, 22) = 0, ConnectEx(ip, 80) = 0, ConnectEx(ip, 8080) = 0,
       ConnectEx(ip, 5900) = 0, HostnameMatches(ip) >>

CheckNames(ip) ==
    << "SSH", "HTTP", "Camera", "VNC",
       "Hostname: " \o GetHostByAddr(ip).hostname >>

RECURSIVE FiredNames(_, _)
FiredNames(ip, i) ==
    IF i > Len(Fired(ip)) THEN << >>
    ELSE (IF Fired(ip)[i] THEN << CheckNames(ip)[i] >> ELSE << >>)
             \o FiredNames(ip, i + 1)

\* C7: scan_for_raspberry_pi_devices returns a candidate for an address it
\* was given if and only if one of the five checks fired there, returns no
\* other candidate, and the candidate's indicators are the names of the
\* fired checks in the order SSH, HTTP, Camera, VNC, Hostname, its
\* confidence their number.
C7_CandidateIffCheckFired ==
    Resolving =>
        /\ \A i \in 1..Len(classified) :
               classified[i].ip \in Range(all_active_hosts)
        /\ \A k \in 1..Len(all_active_hosts) :
               LET ip    == all_active_hosts[k]
                   found == { i \in 1..Len(classified) : classified[i].ip = ip }
               IN  /\ (found # { }) <=> (\E c \in 1..Len(Fired(ip)) : Fired(ip)[c])
                   /\ \A i \in found :
                          /\ classified[i].indicators = FiredNames(ip, 1)
                          /\ classified[i].confidence = Len(FiredNames(ip, 1))

\* C7's case: of two responders, one answers on port 22 alone and becomes
\* the candidate ['SSH'] with confidence 1, the other is silent and is left
\* out.
C7_Witness ==
    /\ Resolving
    /\ Len(all_active_hosts) = 2
    /\ Len(classified) = 1
    /\ classified[1].indicators = << "SSH" >>
    /\ classified[1].confidence = 1
    /\ \E k \in 1..Len(all_active_hosts) :
           \A c \in 1..Len(Fired(all_active_hosts[k])) :
               ~Fired(all_active_hosts[k])[c]

DevicePosition(ip) ==
    CHOOSE k \in 1..Len(raspberry_pi_hosts) : raspberry_pi_hosts[k].ip = ip

C9_BestIsFirstMaximum ==
    (pc = "done" /\ discovered_servers # << >>) =>
        /\ Len(best_server) = 1
        /\ \E k \in 1..Len(discovered_servers) :
               /\ discovered_servers[k] = best_server[1]
               /\ \A j \in 1..Len(discovered_servers) :
                      discovered_servers[j].pi_confidence
                          <= discovered_servers[k].pi_confidence
               /\ \A j \in 1..(k - 1) :
                      discovered_servers[j].pi_confidence
                          < discovered_servers[k].pi_confidence

\* C9's case: two candidates share the greatest confidence and a candidate
\* of lower confidence precedes them.
C9_Witness ==
    /\ pc = "done"
    /\ \E i, j, k \in 1..Len(discovered_servers) :
           /\ i < j /\ j < k
           /\ discovered_servers[i].pi_confidence
                  < discovered_servers[j].pi_confidence
           /\ discovered_servers[j].pi_confidence
                  = discovered_servers[k].pi_confidence
           /\ best_server = << discovered_servers[j] >>

\* C10: a second run against the same network returns the same set of
\* Endpoint Candidates as the first and selects the same best candidate.
C10_RerunSameBest ==
    (firstRun.done /\ pc = "done") =>
        /\ Range(discovered_servers) = firstRun.urls
        /\ { b.url : b \in Range(best_server) }
               = { b.url : b \in Range(firstRun.best) }

\* C11: test_ip_connectivity and test_port never let an exception reach
\* their caller: whichever of socket creation, settimeout, connect_ex and
\* close fails, they return False, and they return True only when
\* connect_ex returned 0.
C11_TcpProbeNeverRaises ==
    (call.fn \in TcpProbes /\ ret # << >>) =>
        LET o == call.arg
        IN  /\ ret[1].raised = ""
            /\ (o.create # "" \/ o.settimeout # "" \/ o.connect # ""
                    \/ o.close # "") => ~ret[1].value
            /\ ret[1].value => (o.connect = "" /\ o.code = 0)

\* C11's case: connect_ex returned 0 and close then raised, and test_port
\* has returned False; test_ip_connectivity has returned False when the
\* socket could not be created.
C11_Witness ==
    /\ ret # << >>
    /\ \/ /\ call.fn = "test_port"
          /\ call.arg.code = 0
          /\ call.arg.close = "OSError"
          /\ ~ret[1].value
       \/ /\ call.fn = "test_ip_connectivity"
          /\ call.arg.create = "OSError"
          /\ ~ret[1].value

\* C12: test_http_connectivity returns the status and the content-type
\* header of the response, 'unknown' when the header is absent; when the
\* request fails it returns no status and the description of the error, and
\* raises nothing; so with a status there is always a content type and
\* never an error description.
C12_HttpProbeTotal ==
    (call.fn = "test_http_connectivity" /\ ret # << >>) =>
        LET response == call.arg
            result   == ret[1]
        IN  /\ result.raised = ""
            /\ response.raised = "" =>
                   /\ result.has_status
                   /\ result.status_code = response.status_code
                   /\ result.content_type =
                          (IF response.headers = << >> THEN "unknown"
                           ELSE response.headers[1])
            /\ response.raised # "" =>
                   /\ ~result.has_status
                   /\ result.content_type = response.error
            /\ result.has_status => response.raised = ""

\* C12's case: the request timed out while reading and the call has
\* returned no status and the description of the timeout.
C12_Witness ==
    /\ call.fn = "test_http_connectivity"
    /\ ret # << >>
    /\ call.arg.raised = "ReadTimeout"
    /\ ~ret[1].has_status
    /\ ret[1].content_type = "ReadTimeout: Read timed out."

\* The most calls one executor is given, and the most devices there can be
LargestPool == MaxHost + (NBases * MaxHost) + (NPorts * NEndpoints)
MostDevices == NBases * MaxHost

\* How many steps the main thread still has to take at most, the turns of
\* its as_completed loops not counted
MainStepsLeft ==
    CASE pc = "start" -> (2 * NBases) + (2 * MostDevices) + 6
      [] pc = "sweep" -> (2 * (Len(network_ranges) + 1 - rangeIdx))
                             + (2 * MostDevices) + 5
      [] pc = "ping"  -> (2 * (Len(network_ranges) + 1 - rangeIdx))
                             + (2 * MostDevices) + 4
      [] pc = "pi"    -> (2 * MostDevices) + 4
      [] pc = "scan"  -> (2 * (Len(raspberry_pi_hosts) + 1 - devIdx)) + 2
      [] pc = "cam"   -> (2 * (Len(raspberry_pi_hosts) + 1 - devIdx)) + 1
      [] pc = "main"  -> 1
      [] pc = "done"  -> 0

\* The work left in a run: the main thread's steps, each weighing more than
\* a whole executor, and for the open executor three steps for a queued
\* call (start, return, yield), two for an executing one, one for a result
\* not yet yielded.
WorkLeft ==
    (MainStepsLeft * ((3 * LargestPool) + 1))
        + (3 * (Len(futures) - started)) + (2 * Cardinality(running))
        + Cardinality(ready)

\* C13: every run of auto_discover_camera_servers returns, with a list that
\* may be empty, when the threads keep going (SpecFair): until main has
\* its list and has chosen from it, the main thread can take a step, or a
\* worker can take a queued call, or a call is executing and will return;
\* and every step, whatever the pings, connects, lookups and requests did,
\* reduces the work left, which is never negative.
C13_RunReturns ==
    /\ [](pc = "done" \/ ENABLED MainThread \/ ENABLED StartTask
              \/ running # { })
    /\ [](WorkLeft >= 0 /\ (Returned => Len(discovered_servers) >= 0))
    /\ [][WorkLeft' < WorkLeft]_vars

\* C13's case: the run has returned the empty list after pings that timed
\* out or got no answer, connects that were refused and requests that all
\* failed.
C13_Witness ==
    /\ Returned
    /\ discovered_servers = << >>
    /\ all_active_hosts # << >>
    /\ stats.done["cam"] > 0
    /\ stats.done["ping"] > Len(all_active_hosts)

\* C14: no probe is issued for a malformed network base: every ping call
\* that has been submitted or is executing is for a base of three octets.
C14_NoProbeForMalformedBase ==
    \A t \in running \cup Range(futures) :
        t.stage = "ping" => Octets(t.base, 3)

\* C17: when the local address was resolved, the only network base swept is
\* the first three octets of that address, with no trailing dot, and every
\* address ping_sweep builds from it is a dotted quad of the local /24.
C17_LocalBaseIsThreeOctets ==
    (localIp # << >> /\ pc # "start") =>
        /\ network_ranges =
               << DecStr(localIp[1]) \o "." \o DecStr(localIp[2]) \o "."
                      \o DecStr(localIp[3]) >>
        /\ \A k \in 1..Len(network_ranges) :
               /\ Octets(network_ranges[k], 3)
               /\ \A host_num \in 1..MaxHost :
                      DottedQuad(HostAddress(network_ranges[k], host_num))

\* The addresses of a network base whose ping succeeds
Responders(network_base) ==
    { HostAddress(network_base, host_num) :
          host_num \in { n \in 1..MaxHost :
                           LET result == PingRun(HostAddress(network_base, n))
                           IN  result.raised = "" /\ result.returncode = 0 } }

\* C16: ping_sweep returns exactly the responders of its range, each once:
\* while it collects, its list holds only responders and none twice, under
\* every interleaving of the workers; when it has returned, the list holds
\* every responder.
C16_SweepReturnsResponders ==
    /\ pc = "ping" =>
           /\ Range(active_hosts) \subseteq Responders(network_ranges[rangeIdx])
           /\ Cardinality(Range(active_hosts)) = Len(active_hosts)
    /\ (pc = "sweep" /\ rangeIdx > 1) =>
           /\ Range(active_hosts) = Responders(network_ranges[rangeIdx - 1])
           /\ Cardinality(Range(active_hosts)) = Len(active_hosts)

\* C16's case: a sweep has returned two responders in the order in which
\* their pings completed, the higher host number first, and has left out
\* the address whose ping failed.
C16_Witness ==
    /\ pc = "sweep"
    /\ rangeIdx > 1
    /\ Len(active_hosts) = 2
    /\ active_hosts[1] = HostAddress(network_ranges[rangeIdx - 1], 2)
    /\ active_hosts[2] = HostAddress(network_ranges[rangeIdx - 1], 1)
    /\ stats.done["ping"] > 2

\* C15: the classifier returns at most one Device Candidate per address and
\* the resolver at most one Endpoint Candidate per (ip, port, endpoint),
\* also when the address list it is given names an address twice.
C15_CandidatesDeduplicated ==
    /\ \A i, j \in 1..Len(raspberry_pi_hosts) :
           i # j => raspberry_pi_hosts[i].ip # raspberry_pi_hosts[j].ip
    /\ \A i, j \in 1..Len(camera_servers) :
           i # j =>
               << camera_servers[i].ip, camera_servers[i].port,
                  camera_servers[i].endpoint >>
                   # << camera_servers[j].ip, camera_servers[j].port,
                        camera_servers[j].endpoint >>

\* The calls of the open executor probing port and endpoint
ProbesOf(port, endpoint) ==
    { i \in 1..Len(futures) :
          futures[i].port = port /\ futures[i].endpoint = endpoint }

\* C18: for each device given to scan_raspberry_pi_for_cameras every pair
\* of a port and a path is submitted exactly once, for that device, and is
\* started once and never again: the calls started and returned are as many
\* as the pairs of the devices done so far; and when the camera at
\* 10.0.0.5, the only host serving anything, is in the device list once,
\* the result is the one Endpoint Candidate http://10.0.0.5:8080/stream.
C18_EachPairProbedOnce ==
    /\ pc = "cam" =>
           /\ Len(futures) = NPorts * NEndpoints
           /\ \A port \in ScannedPorts, endpoint \in ScannedEndpoints :
                  Cardinality(ProbesOf(port, endpoint)) = 1
           /\ \A i \in 1..Len(futures) :
                  futures[i].device = raspberry_pi_hosts[devIdx]
           /\ stats.started["cam"]
                  = ((devIdx - 1) * NPorts * NEndpoints) + started
           /\ stats.done["cam"]
                  = ((devIdx - 1) * NPorts * NEndpoints) + Cardinality(finished)
    /\ pc = "scan" =>
           /\ stats.started["cam"] = (devIdx - 1) * NPorts * NEndpoints
           /\ stats.done["cam"] = stats.started["cam"]
    /\ (pc = "main"
           /\ Cardinality({ i \in 1..Len(raspberry_pi_hosts) :
                                raspberry_pi_hosts[i].ip = "10.0.0.5" }) = 1) =>
           /\ Len(discovered_servers) = 1
           /\ discovered_servers[1].url = "http://10.0.0.5:8080/stream"
           /\ stats.done["cam"]
                  = Len(raspberry_pi_hosts) * NPorts * NEndpoints

\* C18's case: two devices were scanned, each pair once, every probe but
\* one failed, and the scan has returned the stream of 10.0.0.5 alone.
C18_Witness ==
    /\ pc = "main"
    /\ Len(raspberry_pi_hosts) = 2
    /\ stats.done["cam"] = 2 * NPorts * NEndpoints
    /\ Len(discovered_servers) = 1
    /\ discovered_servers[1].url = "http://10.0.0.5:8080/stream"

\* The ports of a call of scan_for_raspberry_pi on which connect_ex returned 0
OpenPorts(probe) ==
    { k \in DOMAIN probe :
          /\ probe[k].create = "" /\ probe[k].settimeout = ""
          /\ probe[k].connect = "" /\ probe[k].close = ""
          /\ probe[k].code = 0 }

\* C20: in scan_for_raspberry_pi of diagnose_connectivity.py the confidence
\* of a device is the number of its positive indicators, a matching host
\* name counting once: k open ports and a matching name give k + 1.
C20_HostnameCountsOnce ==
    (call.fn = "scan_for_raspberry_pi" /\ ret # << >> /\ ret[1] # << >>) =>
        LET device  == ret[1][1]
            lookup  == call.arg.lookup
            matched == /\ ~lookup.raised
                       /\ \E term \in { "raspberry", "pi", "rpi" } :
                              Contains(term, Lower(lookup.hostname))
        IN  device.confidence
                = Cardinality(OpenPorts(call.arg.probe))
                      + (IF matched THEN 1 ELSE 0)

\* The indicators of the four port checks of check_raspberry_pi at ip
TcpIndicators(ip) ==
    (IF ConnectEx(ip, 22) = 0 THEN << "SSH" >> ELSE << >>)
        \o (IF ConnectEx(ip, 80) = 0 THEN << "HTTP" >> ELSE << >>)
        \o (IF ConnectEx(ip, 8080) = 0 THEN << "Camera" >> ELSE << >>)
        \o (IF ConnectEx(ip, 5900) = 0 THEN << "VNC" >> ELSE << >>)

\* The entries of the classifier's list for the address ip
CandidatesOf(ip) == { i \in 1..Len(classified) : classified[i].ip = ip }

\* In diagnose_connectivity.py a raising lookup leaves the device with its
\* services as probed, their number as confidence and no host name.
DeviceKeptWhenLookupRaises ==
    \A c \in DeviceCalls :
        c.arg.lookup.raised =>
            LET found == scan_for_raspberry_pi(c.arg.probe, c.arg.lookup)
                open  == OpenPorts(c.arg.probe)
            IN  /\ (found # << >>) <=> (open # { })
                /\ found # << >> =>
                       /\ found[1].hostname = << >>
                       /\ found[1].confidence = Cardinality(open)
                       /\ \A k \in DOMAIN found[1].services :
                              found[1].services[k] <=> k \in open

\* C19: a reverse lookup that raises fails the classification of no
\* address: the address whose lookup raised has exactly the candidate of
\* its port indicators, unchanged and with no hostname indicator (none when
\* no port answered), which is what its call returned, and every other
\* address keeps the candidate of its own checks.
C19_LookupFailureOmitsHostname ==
    /\ DeviceKeptWhenLookupRaises
    /\ pc = "pi" =>
           \A f \in ready :
               GetHostByAddr(f.result.ip).raised =>
                   f.result = [ip |-> f.result.ip,
                               indicators |-> TcpIndicators(f.result.ip),
                               confidence |-> Len(TcpIndicators(f.result.ip))]
    /\ Resolving =>
           \A k \in 1..Len(all_active_hosts) :
               LET ip == all_active_hosts[k]
               IN  IF GetHostByAddr(ip).raised
                   THEN /\ (CandidatesOf(ip) # { }) <=> (TcpIndicators(ip) # << >>)
                        /\ \A i \in CandidatesOf(ip) :
                               /\ classified[i].indicators = TcpIndicators(ip)
                               /\ classified[i].confidence
                                      = Len(TcpIndicators(ip))
                   ELSE /\ HostnameMatches(ip) => CandidatesOf(ip) # { }
                        /\ \A i \in CandidatesOf(ip) :
                               classified[i].indicators
                                   = TcpIndicators(ip)
                                         \o (IF HostnameMatches(ip)
                                             THEN << "Hostname: "
                                                     \o GetHostByAddr(ip).hostname >>
                                             ELSE << >>)

\* C19's case: of two responders the lookup of one raises and it is the
\* candidate ['Camera'] of its one open port, while the other's lookup
\* succeeds and it carries its hostname indicator.
C19_Witness ==
    /\ Resolving
    /\ Len(classified) = 2
    /\ \E i, j \in 1..Len(classified) :
           /\ GetHostByAddr(classified[i].ip).raised
           /\ classified[i].indicators = << "Camera" >>
           /\ classified[i].confidence = 1
           /\ ~GetHostByAddr(classified[j].ip).raised
           /\ HostnameMatches(classified[j].ip)
           /\ classified[j].confidence = Len(TcpIndicators(classified[j].ip)) + 1

\* The devices passed to scan_raspberry_pi_for_cameras with the address ip
DevicesAt(ip) == { d \in Range(raspberry_pi_hosts) : d.ip = ip }

\* C21: every Endpoint Candidate of scan_raspberry_pi_for_cameras, collected
\* or returned, has as pi_confidence the confidence of the device with its
\* ip that was passed in, and its url is 'http://' + ip + ':' + port + '/'
\* + endpoint of its own fields, the port in decimal.
C21_EndpointCarriesDeviceConfidence ==
    \A e \in Range(camera_servers) \cup Range(discovered_servers)
                \cup (IF pc = "cam" THEN { f.result : f \in ready } ELSE { }) :
        /\ DevicesAt(e.ip) # { }
        /\ \A d \in DevicesAt(e.ip) : e.pi_confidence = d.confidence
        /\ e.url = "http://" \o e.ip \o ":" \o DecStr(e.port) \o "/"
                        \o e.endpoint
        /\ PathOf(e.url) = "/" \o e.endpoint
        /\ e.port \in Range(camera_ports)
        /\ e.endpoint \in Range(camera_endpoints)

\* C21's case: the returned list holds Endpoint Candidates of two devices
\* of different confidence, each carrying its own device's.
C21_Witness ==
    /\ Returned
    /\ \E i, j \in 1..Len(discovered_servers) :
           /\ discovered_servers[i].ip # discovered_servers[j].ip
           /\ discovered_servers[i].pi_confidence = 1
           /\ discovered_servers[j].pi_confidence > 1
           /\ \E d \in DevicesAt(discovered_servers[j].ip) :
                  d.confidence = discovered_servers[j].pi_confidence

\* The URLs of the servers main found, by auto-discovery or by its manual scan
ServerUrls ==
    { e.url : e \in Range(discovered_servers) }
        \cup { e.url : e \in Range(found_servers) }

\* C22: the total main reports as 'Total unique servers', and takes its
\* result and exit code from, is the number of distinct server URLs: a
\* server found by auto-discovery and by the manual scan counts once.
C22_TotalCountsDistinctUrls ==
    pc = "exit" =>
        /\ total_servers = << Cardinality(ServerUrls) >>
        /\ success <=> (ServerUrls # { })
        /\ (ExitCode = 0) <=> (ServerUrls # { })

====
